---------------------------- MODULE Spec2Model ----------------------------
(***************************************************************************)
(* Model of the two processing algorithms of the repository:               *)
(*   OtsuWaterMask.processAlgorithm             (src/methodOtsu.py)        *)
(*   WaterObjectClassification.processAlgorithm (src/waterClassify.py)     *)
(*                                                                         *)
(* Numbers.  Raster samples are small integers or NaN; every quotient the  *)
(* code forms is kept as an exact fraction [num, den] and compared by      *)
(* cross-multiplication, so the model is the code in exact arithmetic      *)
(* (floating-point round-off of numpy / OpenCV is not modelled).           *)
(* The raster is kept flattened in row-major order: every numpy operation  *)
(* of the segmenter is element-wise or a reduction over all cells.         *)
(***************************************************************************)
EXTENDS Integers, Sequences, FiniteSets, TLC

VARIABLES
    \* ---- OtsuWaterMask.processAlgorithm
    pc,          \* position in processAlgorithm
    arr,         \* band.ReadAsArray(), flattened
    nodata,      \* band.GetNoDataValue()
    arr_valid,   \* arr[valid_mask] without NaN
    arr_min, arr_max,
    arr_norm,    \* the uint8 array handed to cv2.threshold
    threshold,   \* the value cv2.threshold returns
    otsu_value,  \* the threshold in raster units, a fraction
    mask,        \* the binarized array
    out_ds,      \* the raster written to OUTPUT (<<>> while none is written)
    \* ---- WaterObjectClassification.processAlgorithm
    cpc,         \* position in processAlgorithm
    vectorized,  \* the layer gdal:polygonize returned
    only_water,  \* the layer native:extractbyattribute returned
    idx,         \* 1-based position of the feature iterator
    sink,        \* the features added to the sink, in order
    canceled,    \* feedback.isCanceled()
    broke        \* the loop was left by break

segVars == <<pc, arr, nodata, arr_valid, arr_min, arr_max, arr_norm,
             threshold, otsu_value, mask, out_ds>>
clsVars == <<cpc, vectorized, only_water, idx, sink, canceled, broke>>
vars == <<pc, arr, nodata, arr_valid, arr_min, arr_max, arr_norm,
          threshold, otsu_value, mask, out_ds,
          cpc, vectorized, only_water, idx, sink, canceled, broke>>

---------------------------------------------------------------------------
(* Bounds of the model *)

\* number of cells of the input raster
MaxCells == 3
\* raster samples are 0..MaxVal
MaxVal == 3
\* number of polygons of a polygonized layer
MaxPolys == 3

---------------------------------------------------------------------------
(* Numbers of the program *)

\* the factor 255 of the normalisation and of the back-mapping
U8Max == 255
\* number of values of numpy.uint8
U8Mod == 256

---------------------------------------------------------------------------
(* Raster samples: <<v>> is the number v, <<>> is NaN *)

NaN == <<>>
Num(v) == <<v>>
IsNaN(s) == s = NaN
Val(s) == s[1]
Vals == 0..MaxVal
Sample == {Num(v) : v \in Vals} \cup {NaN}

\* GetNoDataValue(): None, or a value (NaN included)
NoneNodata == [set |-> FALSE, val |-> NaN]
Nodata == {NoneNodata} \cup {[set |-> TRUE, val |-> s] : s \in Sample}

\* exact fractions
Frac(n, d) == [num |-> n, den |-> d]

\* numpy: a != b, a == b (any comparison with NaN: != is True, == is False)
NpNe(a, b) == IsNaN(a) \/ IsNaN(b) \/ Val(a) # Val(b)
NpEq(a, b) == ~IsNaN(a) /\ ~IsNaN(b) /\ Val(a) = Val(b)
\* numpy: a >= q for a fraction q with q.den > 0 (False for NaN)
NpGe(a, q) == ~IsNaN(a) /\ Val(a) * q.den >= q.num

RECURSIVE SeqMin(_), SeqMax(_)
SeqMin(s) == IF Len(s) = 1 THEN s[1]
             ELSE LET m == SeqMin(Tail(s)) IN IF s[1] < m THEN s[1] ELSE m
SeqMax(s) == IF Len(s) = 1 THEN s[1]
             ELSE LET m == SeqMax(Tail(s)) IN IF s[1] > m THEN s[1] ELSE m

---------------------------------------------------------------------------
(* OtsuWaterMask.processAlgorithm *)

\* lines 43-45: valid_mask
ValidMaskAt(a, nd) == IF nd.set THEN NpNe(a, nd.val) ELSE TRUE

\* lines 47-48: arr[valid_mask], then without NaN; the values, in order
RECURSIVE ValidValues(_, _)
ValidValues(a, nd) ==
    IF a = <<>> THEN <<>>
    ELSE IF ValidMaskAt(a[1], nd) /\ ~IsNaN(a[1])
         THEN <<Val(a[1])>> \o ValidValues(Tail(a), nd)
         ELSE ValidValues(Tail(a), nd)

\* astype(np.uint8) of a non-negative fraction n/d: the fraction is dropped
AsUint8(n, d) == (n \div d) % U8Mod

\* a normalisation that rounds to nearest, halves up
NormCellRounded(v, lo, hi) ==
    ((2 * (v - lo) * U8Max + (hi - lo)) \div (2 * (hi - lo))) % U8Mod

\* line 53 for one sample, lo < hi
NormCell(v, lo, hi) == AsUint8((v - lo) * U8Max, hi - lo)

\* line 53 when arr_max = arr_min: 0/0 is NaN and NaN.astype(uint8) is
\* undefined in C; the outcomes a build produces per element
NaNCast == {0, U8Max}

\* cv2.threshold(..., THRESH_OTSU), OpenCV's getThreshVal_Otsu_8u: for each
\* i in 0..255 in turn, q1 = share of samples <= i, q2 = 1 - q1; a split with
\* an empty side is skipped; sigma = q1*q2*(mu1 - mu2)^2; the first i with
\* the largest sigma (> 0) is returned, 0 when there is none.
\* With n1, n2 the class sizes and s1, s2 the class sums,
\*   sigma = (s1*n2 - s2*n1)^2 / (N^2 * n1 * n2).
CountLe(s, i) == Cardinality({k \in 1..Len(s) : s[k] <= i})
RECURSIVE SumLe(_, _)
SumLe(s, i) == IF s = <<>> THEN 0
               ELSE (IF s[1] <= i THEN s[1] ELSE 0) + SumLe(Tail(s), i)
SigmaAt(s, i) ==
    LET n1 == CountLe(s, i)
        n2 == Len(s) - n1
        s1 == SumLe(s, i)
        s2 == SumLe(s, U8Max) - s1
        d  == s1 * n2 - s2 * n1
    IN  IF n1 = 0 \/ n2 = 0 THEN Frac(0, 1) ELSE Frac(d * d, n1 * n2)
\* The scan over i = lo..hi, halved to keep the evaluation shallow: the
\* result is the first i of lo..hi with the largest sigma, as the loop
\* (which replaces max_val only on sigma > max_sigma) leaves it.
RECURSIVE OtsuScan(_, _, _)
OtsuScan(s, lo, hi) ==
    IF lo = hi THEN [sigma |-> SigmaAt(s, lo), val |-> lo]
    ELSE LET mid == (lo + hi) \div 2
             l == OtsuScan(s, lo, mid)
             r == OtsuScan(s, mid + 1, hi)
         IN  IF r.sigma.num * l.sigma.den > l.sigma.num * r.sigma.den
             THEN r ELSE l
\* max_sigma and max_val start at 0: no split with sigma > 0 leaves 0
OtsuThreshold(s) ==
    LET best == OtsuScan(s, 0, U8Max)
    IN  IF best.sigma.num > 0 THEN best.val ELSE 0

\* lines 56-57: the two classes of the split cv2.threshold chose, as positions
\* of arr_norm: THRESH_BINARY sends src > thresh to maxval and the rest to 0
OtsuBackground(s, t) == {k \in 1..Len(s) : s[k] <= t}
OtsuForeground(s, t) == {k \in 1..Len(s) : s[k] > t}

\* the threshold left in 0..255 units
OtsuValueUnscaled(lo, hi, t) == Frac(lo + t * (hi - lo), 1)

\* line 57: arr_min + (threshold / 255.0) * (arr_max - arr_min)
OtsuValue(lo, hi, t) == Frac(U8Max * lo + t * (hi - lo), U8Max)

\* a binarization without line 64
BinarizeCellKeepSentinel(a, q, nd) == IF NpGe(a, q) THEN 1 ELSE 0

\* lines 61-64: the mask of one cell
BinarizeCell(a, q, nd) ==
    LET m == IF NpGe(a, q) THEN 1 ELSE 0
    IN  IF nd.set /\ NpEq(a, nd.val) THEN 0 ELSE m

Rasters == UNION {[1..n -> Sample] : n \in 1..MaxCells}

SegInit ==
    /\ pc = "start"
    /\ arr \in Rasters
    /\ nodata \in Nodata
    /\ arr_valid = <<>>
    /\ arr_min = 0
    /\ arr_max = 0
    /\ arr_norm = <<>>
    /\ threshold = 0
    /\ otsu_value = Frac(0, 1)
    /\ mask = <<>>
    /\ out_ds = <<>>

\* lines 42-48
SelectValid ==
    /\ pc = "start"
    /\ arr_valid' = ValidValues(arr, nodata)
    /\ pc' = "normalize"
    /\ UNCHANGED <<arr, nodata, arr_min, arr_max, arr_norm, threshold,
                   otsu_value, mask, out_ds>>
    /\ UNCHANGED clsVars

\* a reduction of the empty array that yields 0 instead of raising
MinOfEmptyIsZero ==
    /\ pc = "normalize"
    /\ arr_valid = <<>>
    /\ arr_min' = 0
    /\ arr_max' = 0
    /\ arr_norm' = <<>>
    /\ pc' = "otsu"
    /\ UNCHANGED <<arr, nodata, arr_valid, threshold, otsu_value, mask, out_ds>>
    /\ UNCHANGED clsVars

\* line 51 on an empty array: numpy raises ValueError, processAlgorithm ends
MinOfEmpty ==
    /\ pc = "normalize"
    /\ arr_valid = <<>>
    /\ pc' = "failed"
    /\ UNCHANGED <<arr, nodata, arr_valid, arr_min, arr_max, arr_norm,
                   threshold, otsu_value, mask, out_ds>>
    /\ UNCHANGED clsVars

\* lines 51-53, arr_max > arr_min
Normalize ==
    /\ pc = "normalize"
    /\ arr_valid # <<>>
    /\ SeqMin(arr_valid) < SeqMax(arr_valid)
    /\ arr_min' = SeqMin(arr_valid)
    /\ arr_max' = SeqMax(arr_valid)
    /\ arr_norm' = [k \in 1..Len(arr_valid) |->
                      NormCell(arr_valid[k], SeqMin(arr_valid), SeqMax(arr_valid))]
    /\ pc' = "otsu"
    /\ UNCHANGED <<arr, nodata, arr_valid, threshold, otsu_value, mask, out_ds>>
    /\ UNCHANGED clsVars

\* lines 51-53, arr_max = arr_min: a division of zero by zero, no exception
NormalizeConstant ==
    /\ pc = "normalize"
    /\ arr_valid # <<>>
    /\ SeqMin(arr_valid) = SeqMax(arr_valid)
    /\ arr_min' = SeqMin(arr_valid)
    /\ arr_max' = SeqMax(arr_valid)
    /\ arr_norm' \in [1..Len(arr_valid) -> NaNCast]
    /\ pc' = "otsu"
    /\ UNCHANGED <<arr, nodata, arr_valid, threshold, otsu_value, mask, out_ds>>
    /\ UNCHANGED clsVars

\* lines 56-58
Otsu ==
    /\ pc = "otsu"
    /\ threshold' = OtsuThreshold(arr_norm)
    /\ otsu_value' = OtsuValue(arr_min, arr_max, OtsuThreshold(arr_norm))
    /\ pc' = "binarize"
    /\ UNCHANGED <<arr, nodata, arr_valid, arr_min, arr_max, arr_norm, mask,
                   out_ds>>
    /\ UNCHANGED clsVars

\* lines 60-64
Binarize ==
    /\ pc = "binarize"
    /\ mask' = [k \in 1..Len(arr) |-> BinarizeCell(arr[k], otsu_value, nodata)]
    /\ pc' = "write"
    /\ UNCHANGED <<arr, nodata, arr_valid, arr_min, arr_max, arr_norm,
                   threshold, otsu_value, out_ds>>
    /\ UNCHANGED clsVars

\* lines 66-78
WriteOutput ==
    /\ pc = "write"
    /\ out_ds' = mask
    /\ pc' = "done"
    /\ UNCHANGED <<arr, nodata, arr_valid, arr_min, arr_max, arr_norm,
                   threshold, otsu_value, mask>>
    /\ UNCHANGED clsVars

SegNext ==
    \/ SelectValid
    \/ MinOfEmpty
    \/ Normalize
    \/ NormalizeConstant
    \/ Otsu
    \/ Binarize
    \/ WriteOutput

ClsIdle ==
    /\ cpc = "idle"
    /\ vectorized = <<>>
    /\ only_water = <<>>
    /\ idx = 1
    /\ sink = <<>>
    /\ canceled = FALSE
    /\ broke = FALSE

Init == SegInit /\ ClsIdle
Next == SegNext
Spec == Init /\ [][Next]_vars

---------------------------------------------------------------------------
(* WaterObjectClassification.processAlgorithm *)

\* the numbers of the classification rules
RiverAxis == 8000
RiverElongation == 3
LakeArea == 500000
LakeElongation == 2
CreekArea == 20000
CreekElongation == 2
PondArea == 10000

\* orientedMinimumBoundingBox(): None, or a rectangle that is GEOS-valid or
\* not; a rectangle has two pairs of equal sides a, b
NoRect == [present |-> FALSE, valid |-> FALSE, a |-> 0, b |-> 0]
InvalidRect == [present |-> TRUE, valid |-> FALSE, a |-> 0, b |-> 0]
Rect(a, b) == [present |-> TRUE, valid |-> TRUE, a |-> a, b |-> b]

\* line 123: the four side lengths of the rectangle's ring
SideLengths(r) == <<r.a, r.b, r.a, r.b>>

\* the height/width quotient with the operands exchanged
ElongationInverted(r) ==
    IF r.present /\ r.valid
    THEN IF SeqMin(SideLengths(r)) > 0
         THEN Frac(SeqMin(SideLengths(r)), SeqMax(SideLengths(r)))
         ELSE Frac(1, 1)
    ELSE Frac(1, 1)

\* lines 118-133: elongation, a fraction
Elongation(r) ==
    IF r.present
    THEN IF r.valid
         THEN LET width == SeqMin(SideLengths(r))
                  height == SeqMax(SideLengths(r))
              IN  IF width > 0 THEN Frac(height, width) ELSE Frac(1, 1)
         ELSE Frac(1, 1)
    ELSE Frac(1, 1)

\* lines 118-133: main_axis
MainAxis(r) ==
    IF r.present
    THEN IF r.valid THEN SeqMax(SideLengths(r)) ELSE 0
    ELSE 0

\* e > n and e < n for a fraction e with e.den > 0
FracGt(e, n) == e.num > n * e.den
FracLt(e, n) == e.num < n * e.den

\* the rules with the area rule for ponds tried first
ClassOfPondFirst(area, elongation, main_axis) ==
    IF area < PondArea THEN "Prud"
    ELSE IF main_axis > RiverAxis /\ FracGt(elongation, RiverElongation) THEN "Reka"
    ELSE IF area > LakeArea /\ FracLt(elongation, LakeElongation) THEN "Ozero"
    ELSE IF area < CreekArea /\ FracGt(elongation, CreekElongation) THEN "Erik"
    ELSE "Vodoem"

\* lines 135-145; the labels are the source's, transliterated:
\* Reka = river, Ozero = lake, Erik = creek/oxbow, Prud = pond,
\* Vodoem = generic water body
ClassOf(area, elongation, main_axis) ==
    IF main_axis > RiverAxis /\ FracGt(elongation, RiverElongation) THEN "Reka"
    ELSE IF area > LakeArea /\ FracLt(elongation, LakeElongation) THEN "Ozero"
    ELSE IF area < CreekArea /\ FracGt(elongation, CreekElongation) THEN "Erik"
    ELSE IF area < PondArea THEN "Prud"
    ELSE "Vodoem"

\* lines 114-150: the feature built from input feature f
NewFeature(f) ==
    [attrs |-> f.attrs, geom |-> f.geom,
     area_m2 |-> f.geom.area, perimeter_m |-> f.geom.perim,
     elongation |-> Elongation(f.geom.rect),
     main_axis |-> MainAxis(f.geom.rect),
     class |-> ClassOf(f.geom.area, Elongation(f.geom.rect), MainAxis(f.geom.rect))]

\* an extraction that keeps the features with DN # 1
ExtractByAttributeOthers(layer) ==
    SelectSeq(layer, LAMBDA f : f.attrs.DN # 1)

\* lines 84-95: native:extractbyattribute, FIELD DN, OPERATOR =, VALUE 1
ExtractByAttribute(layer) ==
    SelectSeq(layer, LAMBDA f : f.attrs.DN = 1)

\* Inputs.  A geometry is given by what the code reads of it: area, length
\* and oriented minimum bounding rectangle; a polygon lies inside its
\* rectangle, so its area is at most a * b.
Areas == {0, 9999, 10000, 19999, 20000, 500000, 500001}
Sides == {0, 1000, 2000, 3000, 8000, 9000}
Perims == {400}
Rects == {NoRect, InvalidRect} \cup {Rect(a, b) : a \in Sides, b \in Sides}
Geoms == {g \in [area : Areas, perim : Perims, rect : Rects] :
             (g.rect.present /\ g.rect.valid) => g.area <= g.rect.a * g.rect.b}
Polygons == [attrs : [DN : {0, 1}], geom : Geoms]
\* the geometries of the layers of more than one polygon
FewGeoms == {g \in Geoms : /\ g.area \in {9999, 500001}
                           /\ g.rect \in {NoRect, Rect(9000, 1000)}}
FewPolygons == [attrs : [DN : {0, 1}], geom : FewGeoms]
Layers == {<<>>} \cup {<<p>> : p \in Polygons}
             \cup UNION {[1..n -> FewPolygons] : n \in 2..MaxPolys}

SegIdle ==
    /\ pc = "idle"
    /\ arr = <<>>
    /\ nodata = NoneNodata
    /\ arr_valid = <<>>
    /\ arr_min = 0
    /\ arr_max = 0
    /\ arr_norm = <<>>
    /\ threshold = 0
    /\ otsu_value = Frac(0, 1)
    /\ mask = <<>>
    /\ out_ds = <<>>

\* lines 60-80: the state once gdal:polygonize has returned
ClsInit ==
    /\ cpc = "filter"
    /\ vectorized \in Layers
    /\ only_water = <<>>
    /\ idx = 1
    /\ sink = <<>>
    /\ canceled = FALSE
    /\ broke = FALSE

\* lines 82-110
FilterWater ==
    /\ cpc = "filter"
    /\ only_water' = ExtractByAttribute(vectorized)
    /\ cpc' = "loop"
    /\ UNCHANGED <<vectorized, idx, sink, canceled, broke>>
    /\ UNCHANGED segVars

\* the user cancels the run: feedback.isCanceled() is true from now on
\* (the flag is set from another thread, at any point of the run)
Cancel ==
    /\ cpc \in {"filter", "loop", "body"}
    /\ ~canceled
    /\ canceled' = TRUE
    /\ UNCHANGED <<cpc, vectorized, only_water, idx, sink, broke>>
    /\ UNCHANGED segVars

\* lines 111-113: a feature is at hand and isCanceled() holds: break
Break ==
    /\ cpc = "loop"
    /\ idx <= Len(only_water)
    /\ canceled
    /\ broke' = TRUE
    /\ cpc' = "finish"
    /\ UNCHANGED <<vectorized, only_water, idx, sink, canceled>>
    /\ UNCHANGED segVars

\* lines 111-112: a feature is at hand and isCanceled() does not hold
EnterBody ==
    /\ cpc = "loop"
    /\ idx <= Len(only_water)
    /\ ~canceled
    /\ cpc' = "body"
    /\ UNCHANGED <<vectorized, only_water, idx, sink, canceled, broke>>
    /\ UNCHANGED segVars

\* a loop body that adds the feature to the sink twice
ProcessFeatureTwice ==
    /\ cpc = "body"
    /\ sink' = sink \o <<NewFeature(only_water[idx]), NewFeature(only_water[idx])>>
    /\ idx' = idx + 1
    /\ cpc' = "loop"
    /\ UNCHANGED <<vectorized, only_water, canceled, broke>>
    /\ UNCHANGED segVars

\* lines 114-152: the body of one iteration
ProcessFeature ==
    /\ cpc = "body"
    /\ sink' = Append(sink, NewFeature(only_water[idx]))
    /\ idx' = idx + 1
    /\ cpc' = "loop"
    /\ UNCHANGED <<vectorized, only_water, canceled, broke>>
    /\ UNCHANGED segVars

\* line 111: the iterator is exhausted
LoopEnd ==
    /\ cpc = "loop"
    /\ idx > Len(only_water)
    /\ cpc' = "finish"
    /\ UNCHANGED <<vectorized, only_water, idx, sink, canceled, broke>>
    /\ UNCHANGED segVars

\* lines 154-155
Return ==
    /\ cpc = "finish"
    /\ cpc' = "done"
    /\ UNCHANGED <<vectorized, only_water, idx, sink, canceled, broke>>
    /\ UNCHANGED segVars

ClsNext ==
    \/ FilterWater
    \/ Cancel
    \/ Break
    \/ EnterBody
    \/ ProcessFeature
    \/ LoopEnd
    \/ Return

InitClassifier == SegIdle /\ ClsInit
SpecClassifier == InitClassifier /\ [][ClsNext]_vars

---------------------------------------------------------------------------
(* Properties of OtsuWaterMask.processAlgorithm *)

\* a cell is valid: not the no-data sentinel and not NaN
IsValidCell(a) == ~IsNaN(a) /\ ~(nodata.set /\ ~IsNaN(nodata.val) /\ Val(a) = Val(nodata.val))
\* the position in arr_valid / arr_norm of the valid cell k of arr
ValidRank(k) == Cardinality({j \in 1..k : IsValidCell(arr[j])})
\* 255 * threshold_value, from the valid minimum, maximum and the split point
Thr255 == U8Max * arr_min + threshold * (arr_max - arr_min)
Thresholded == pc \in {"binarize", "write", "done"}

\* C1: after a successful run every cell of the written mask is 1 exactly when
\* the input cell is valid and >= threshold_value, and 0 otherwise; a cell
\* equal to the sentinel is 0 even when the sentinel is >= threshold_value.
C1_MaskContract ==
    pc = "done" =>
        /\ Len(out_ds) = Len(arr)
        /\ \A k \in 1..Len(arr) :
              out_ds[k] = IF IsValidCell(arr[k]) /\ U8Max * Val(arr[k]) >= Thr255
                          THEN 1 ELSE 0
\* a written mask with a 1, and a 0 on a sentinel cell that is >= the threshold
C1_Witness ==
    /\ pc = "done"
    /\ \E k \in 1..Len(arr) : out_ds[k] = 1
    /\ \E k \in 1..Len(arr) :
          /\ ~IsNaN(arr[k]) /\ ~IsValidCell(arr[k])
          /\ U8Max * Val(arr[k]) >= Thr255
          /\ out_ds[k] = 0

\* C2: a raster whose valid samples all have one value makes the run fail:
\* it never completes and no mask is written.
C2_ConstantInputFails ==
    LET v == ValidValues(arr, nodata)
    IN  (v # <<>> /\ SeqMin(v) = SeqMax(v)) => (pc # "done" /\ out_ds = <<>>)

\* C3: a raster without valid samples makes the run fail before any output
\* exists: the run never gets past the reduction, and no mask is computed or
\* written.
C3_EmptyInputFails ==
    ValidValues(arr, nodata) = <<>> =>
        /\ pc \in {"start", "normalize", "failed"}
        /\ mask = <<>>
        /\ out_ds = <<>>
\* the run has failed on a raster whose cells are sentinel and NaN cells
C3_Witness ==
    /\ pc = "failed"
    /\ \E k \in 1..Len(arr) : IsNaN(arr[k])
    /\ \E k \in 1..Len(arr) : ~IsNaN(arr[k])
    /\ out_ds = <<>>

\* C4: with two distinct valid values, min <= threshold_value <= max, and
\* threshold_value = max never happens (the only bound reached is min).
C4_ThresholdInRange ==
    (Thresholded /\ arr_min < arr_max) =>
        /\ arr_min * otsu_value.den <= otsu_value.num
        /\ otsu_value.num < arr_max * otsu_value.den
\* a threshold strictly inside the range
C4_Witness ==
    /\ pc = "done"
    /\ arr_min * otsu_value.den < otsu_value.num
    /\ otsu_value.num < arr_max * otsu_value.den

\* C8 as stated: every valid sample is scaled by rounding to nearest, a
\* fractional part >= 0.5 going to the next higher integer.
C8_ScaledRounded ==
    (pc \in {"otsu", "binarize", "write", "done"} /\ arr_min < arr_max) =>
        \A k \in 1..Len(arr_valid) :
            LET x == U8Max * (arr_valid[k] - arr_min)
                d == arr_max - arr_min
                s == arr_norm[k]
            IN  /\ s \in 0..U8Max
                /\ 2 * s * d - d <= 2 * x
                /\ 2 * x < 2 * s * d + d
\* C8 amended: every valid sample is scaled to an integer of 0..255 by
\* dropping the fractional part: scaled <= (v-min)/(max-min)*255 < scaled+1;
\* min maps to 0 and max to 255.
C8_ScaledTruncated ==
    (pc \in {"otsu", "binarize", "write", "done"} /\ arr_min < arr_max) =>
        \A k \in 1..Len(arr_valid) :
            LET x == U8Max * (arr_valid[k] - arr_min)
                d == arr_max - arr_min
                s == arr_norm[k]
            IN  /\ s \in 0..U8Max
                /\ s * d <= x
                /\ x < (s + 1) * d
                /\ (arr_valid[k] = arr_min => s = 0)
                /\ (arr_valid[k] = arr_max => s = U8Max)
\* a sample whose exact position has a fractional part >= 0.5 has been scaled
C8_Witness ==
    /\ pc = "otsu"
    /\ arr_min < arr_max
    /\ \E k \in 1..Len(arr_valid) :
          2 * (U8Max * (arr_valid[k] - arr_min) - arr_norm[k] * (arr_max - arr_min))
              >= arr_max - arr_min

---------------------------------------------------------------------------
(* Properties of WaterObjectClassification.processAlgorithm *)

Labels == {"Reka", "Ozero", "Erik", "Prud", "Vodoem"}
IsPrefix(s, t) == Len(s) <= Len(t) /\ \A i \in 1..Len(s) : s[i] = t[i]
\* what a run that is not cancelled adds to the sink
FullOutput == [k \in 1..Len(only_water) |-> NewFeature(only_water[k])]
\* the positions of the polygons of the vectorized layer with DN = 1
WaterPositions == {k \in 1..Len(vectorized) : vectorized[k].attrs.DN = 1}

\* C5: every emitted feature has exactly one of the five labels, the one of
\* the first rule it matches, in the order river, lake, creek, pond, generic;
\* all comparisons are strict.
C5_FirstMatchWins ==
    \A j \in 1..Len(sink) :
        LET x  == sink[j]
            e  == x.elongation
            r1 == x.main_axis > 8000 /\ e.num > 3 * e.den
            r2 == x.area_m2 > 500000 /\ e.num < 2 * e.den
            r3 == x.area_m2 < 20000 /\ e.num > 2 * e.den
            r4 == x.area_m2 < 10000
        IN  /\ x.class \in Labels
            /\ x.class = "Reka" <=> r1
            /\ x.class = "Ozero" <=> (~r1 /\ r2)
            /\ x.class = "Erik" <=> (~r1 /\ ~r2 /\ r3)
            /\ x.class = "Prud" <=> (~r1 /\ ~r2 /\ ~r3 /\ r4)
            /\ x.class = "Vodoem" <=> (~r1 /\ ~r2 /\ ~r3 /\ ~r4)
\* a feature of area < 10000 with main_axis > 8000 and elongation > 3 has
\* been emitted as a river
C5_Witness ==
    \E j \in 1..Len(sink) :
        /\ sink[j].area_m2 < 10000
        /\ sink[j].main_axis > 8000
        /\ sink[j].elongation.num > 3 * sink[j].elongation.den
        /\ sink[j].class = "Reka"

\* C6 as stated: once a cancelled run has ended, the sink holds a strict
\* prefix of what an uncancelled run would emit (stated for layers with at
\* least one water polygon, where a strict prefix exists).
C6_CancelledStrictPrefix ==
    (cpc = "done" /\ canceled /\ Len(only_water) > 0) =>
        (IsPrefix(sink, FullOutput) /\ Len(sink) < Len(FullOutput))
\* C6 amended: the sink always holds a prefix, in processing order, of what
\* an uncancelled run would emit, each feature once and complete; the prefix
\* is strict when the loop has observed the cancellation, which it does only
\* between two polygons; a step adds at most one feature and removes none.
C6_CancelledPrefix ==
    /\ [](/\ IsPrefix(sink, FullOutput)
          /\ broke => (canceled /\ Len(sink) < Len(FullOutput))
          /\ (cpc = "done" /\ ~broke) => sink = FullOutput)
    /\ [][/\ IsPrefix(sink, sink')
          /\ Len(sink') <= Len(sink) + 1
          /\ (broke' /\ ~broke) => (cpc = "loop" /\ sink' = sink)
          /\ cpc = "body" => sink' # sink \/ (canceled' /\ ~canceled)]_vars
\* a run ended by break with a feature emitted and a feature left out
C6_Witness ==
    /\ cpc = "done"
    /\ broke
    /\ Len(sink) >= 1
    /\ Len(sink) < Len(only_water)

\* C7: a run that the cancellation did not end writes one feature per input
\* polygon with DN = 1, in input order, each with one of the five labels;
\* with no such polygon it ends with an empty output.
C7_OneFeaturePerWaterPolygon ==
    (cpc = "done" /\ ~broke) =>
        /\ Len(sink) = Cardinality(WaterPositions)
        /\ \A j \in 1..Len(sink) :
              /\ sink[j].class \in Labels
              /\ \E k \in WaterPositions :
                    /\ Cardinality({i \in WaterPositions : i <= k}) = j
                    /\ sink[j].geom = vectorized[k].geom
                    /\ sink[j].attrs = vectorized[k].attrs
\* a completed run on a layer mixing DN = 0 and DN = 1, two different
\* geometries emitted
C7_Witness ==
    /\ cpc = "done"
    /\ ~broke
    /\ Len(sink) = 2
    /\ Len(vectorized) > 2
    /\ sink[1].geom # sink[2].geom

\* C9: a feature without a usable rectangle has elongation 1 and main_axis 0
\* and is no river and no creek; otherwise main_axis is the longest side and
\* elongation is longest / shortest side, or 1 when the shortest is 0; every
\* emitted feature has elongation >= 1 and main_axis >= 0.
C9_ElongationAndAxis ==
    \A j \in 1..Len(sink) :
        LET x == sink[j]
            r == x.geom.rect
            e == x.elongation
            lo == IF r.a < r.b THEN r.a ELSE r.b
            hi == IF r.a < r.b THEN r.b ELSE r.a
        IN  /\ e.den > 0
            /\ e.num >= e.den
            /\ x.main_axis >= 0
            /\ ~(r.present /\ r.valid) =>
                  /\ e.num = e.den
                  /\ x.main_axis = 0
                  /\ x.class \notin {"Reka", "Erik"}
            /\ (r.present /\ r.valid) =>
                  /\ x.main_axis = hi
                  /\ lo > 0 => e.num * lo = e.den * hi
                  /\ lo = 0 => e.num = e.den
\* emitted: a fallback feature of area < 10000 labelled pond, and a feature
\* with a rectangle and elongation > 1
C9_Witness ==
    /\ \E j \in 1..Len(sink) :
          /\ ~sink[j].geom.rect.present
          /\ sink[j].area_m2 < 10000
          /\ sink[j].class = "Prud"
    /\ \E j \in 1..Len(sink) :
          /\ sink[j].geom.rect.valid
          /\ sink[j].elongation.num > sink[j].elongation.den

===========================================================================
